---- MODULE Spec2Model ----
(***************************************************************************)
(* Model of src/bot.py: the sqlite-backed learner store (users,            *)
(* topic_stats, attempts), the weighted question selector and the          *)
(* aiogram handlers cmd_start, cb_start_quiz and cb_answer.                *)
(*                                                                         *)
(* Handlers are coroutines: the event loop may switch between them at      *)
(* every await, so each awaited database statement is one step.            *)
(* Weights are REAL columns holding multiples of 0.1; the model keeps      *)
(* them as integers counted in tenths (1.0 is 10, the floor 0.1 is 1).     *)
(***************************************************************************)
EXTENDS Integers, Sequences, FiniteSets, TLC

\* ------------------------------------------------------------------ bounds
\* Longest attempt log explored by the handlers running concurrently.
MaxAttempts == 5
\* Most calls of other tasks that start while one call is running.
MaxOverlap == 1
\* The same, for the answer calls racing on one learner's difficulty.
MaxOverlapRace == 2
\* Answer calls made on top of the stored log by the racing answer calls.
MaxRaceAnswers == 3
\* Answer calls made on top of the stored log by the calls of two learners.
MaxTwoAnswers == 2
\* Longest attempt log explored by answers to the questions of two topics.
MaxAttemptsTopics == 5
\* Longest attempt log explored by answers to one question only.
MaxAttemptsRun == 7
\* Longest attempt log explored by one handler running at a time.
MaxAttemptsSeq == 6
\* Draw values per tenth of weight: r ranges over 0 .. total*DrawSteps - 1.
DrawSteps == 2
\* Largest topic weight (in tenths) given to the selector on its own.
MaxSelWeight == 3

\* ------------------------------------------------------- program constants
InitialWeight == 10
MinWeight == 1
DeltaCorrect == -3
DeltaWrong == 5
UpStreak == 3
DownStreak == 2
NoId == 0

levels == <<"easy", "medium", "hard">>
Mixed == "Mixed"
UserIds == {1, 2}
Procs == {1, 2}

Max(a, b) == IF a >= b THEN a ELSE b

\* ------------------------------------------------------------ question bank
Q(id, answer) == [id |-> id, answer |-> answer, options |-> <<"x", "y">>]

\* The bank the handlers run against: topic B has easy questions only.
Bank1 ==
  [order |-> <<"A", "B">>,
   questions |->
     [t \in {"A", "B"} |->
        IF t = "A"
        THEN [l \in {"easy", "medium", "hard"} |->
                IF l = "easy" THEN <<Q("a1", "x")>>
                ELSE IF l = "medium" THEN <<Q("a2", "y")>>
                ELSE <<Q("a3", "x")>>]
        ELSE [l \in {"easy"} |-> <<Q("b1", "x")>>]]]

\* A bank with two questions in one level and no hard question at all.
Bank2 ==
  [order |-> <<"A", "B">>,
   questions |->
     [t \in {"A", "B"} |->
        IF t = "A"
        THEN [l \in {"easy", "medium"} |->
                IF l = "easy" THEN <<Q("a1", "x"), Q("a2", "y")>>
                ELSE <<Q("a3", "x")>>]
        ELSE [l \in {"easy", "medium"} |->
                IF l = "easy" THEN <<Q("b1", "x")>> ELSE <<Q("b2", "y")>>]]]

VARIABLES
  QDB,          \* the bank loaded at start-up (never written afterwards)
  users,        \* table users: id -> row, for the ids that have a row
  topic_stats,  \* table topic_stats: <<user_id, topic>> -> weight in tenths
  attempts,     \* table attempts, in insertion order
  pc,           \* per handler task: the await it is suspended at
  loc,          \* per handler task: its local variables
  eff,          \* history: the writes the running call has committed
  base,         \* history: the stored row and weight when the call began
  hist,         \* history: per learner, the finished answer calls in order
  ov,           \* per task: the calls of other tasks begun during its call
  sel           \* the selector's arguments and result, when run on its own

vars == <<QDB, users, topic_stats, attempts, pc, loc, eff, base, hist, ov, sel>>

Topics == {QDB.order[i] : i \in 1..Len(QDB.order)}

\* QDB[t]["questions"].get(difficulty, [])
QuestionsAt(t, difficulty) ==
  IF difficulty \in DOMAIN QDB.questions[t]
  THEN QDB.questions[t][difficulty]
  ELSE <<>>

SeqToSet(s) == {s[i] : i \in 1..Len(s)}

\* ------------------------------------------------------------ learner store
None ==
  [id |-> NoId, difficulty |-> "none", correct_streak |-> 0,
   wrong_streak |-> 0, active_topic |-> "none"]

\* Variant: a new learner starts at medium.
NewUserRowMedium(user_id) ==
  [id |-> user_id, difficulty |-> "medium", correct_streak |-> 0,
   wrong_streak |-> 0, active_topic |-> Mixed]

NewUserRow(user_id) ==
  [id |-> user_id, difficulty |-> "easy", correct_streak |-> 0,
   wrong_streak |-> 0, active_topic |-> Mixed]

\* SELECT * FROM users WHERE id = ?  (None when there is no row)
get_user(user_id) ==
  IF user_id \in DOMAIN users THEN users[user_id] ELSE None

\* Variant: the UPDATE has no WHERE clause and sets the fields in every row.
UpdatedAllUsers(table, user_id, kwargs) ==
  [id \in DOMAIN table |->
     [f \in DOMAIN table[id] |->
        IF f \in DOMAIN kwargs THEN kwargs[f] ELSE table[id][f]]]

\* UPDATE users SET k = v, ... WHERE id = ?  (no row: nothing is updated)
UpdatedUsers(table, user_id, kwargs) ==
  IF user_id \in DOMAIN table
  THEN [table EXCEPT ![user_id] =
          [f \in DOMAIN table[user_id] |->
             IF f \in DOMAIN kwargs THEN kwargs[f] ELSE table[user_id][f]]]
  ELSE table

update_user(user_id, kwargs) == UpdatedUsers(users, user_id, kwargs)

\* SELECT topic, weight FROM topic_stats WHERE user_id = ?
get_topic_weights(user_id) ==
  [t \in {k[2] : k \in {kk \in DOMAIN topic_stats : kk[1] = user_id}} |->
     topic_stats[<<user_id, t>>]]

\* INSERT OR REPLACE INTO topic_stats VALUES(user_id, topic, w, now)
Upsert(table, user_id, topic, w) ==
  [k \in DOMAIN table \cup {<<user_id, topic>>} |->
     IF k = <<user_id, topic>> THEN w ELSE table[k]]

\* update_topic_weight, its SELECT: w = row[0] if row else 1.0
StoredWeight(user_id, topic) ==
  IF <<user_id, topic>> \in DOMAIN topic_stats
  THEN topic_stats[<<user_id, topic>>]
  ELSE InitialWeight

\* Variant: the sum is stored without the floor.
UnclampedWeight(w, delta) == w + delta

\* Variant: the floor is 0 instead of 0.1.
ZeroFloorWeight(w, delta) == Max(0, w + delta)

\* update_topic_weight: w = max(0.1, w + delta)
ClampedWeight(w, delta) == Max(MinWeight, w + delta)

\* ensure_user, when the SELECT found no row: the users row and one
\* topic_stats row of weight 1.0 per topic of the bank, in one commit.
RECURSIVE InsertWeights(_, _, _)
InsertWeights(table, user_id, ts) ==
  IF ts = <<>> THEN table
  ELSE InsertWeights(Upsert(table, user_id, Head(ts), InitialWeight),
                     user_id, Tail(ts))

\* record_attempt: INSERT INTO attempts VALUES(user_id, qid, correct, now)
AttemptRow(user_id, qid, correct) ==
  [user_id |-> user_id, qid |-> qid, correct |-> correct]

\* Variant: only correct answers are logged.
record_correct_attempt(user_id, qid, correct) ==
  IF correct THEN Append(attempts, AttemptRow(user_id, qid, correct))
  ELSE attempts

record_attempt(user_id, qid, correct) ==
  Append(attempts, AttemptRow(user_id, qid, correct))

\* ------------------------------------------------------------- question logic
NoQuestion == [id |-> "", answer |-> "", options |-> <<>>]
NoChoice == <<"", NoQuestion>>

\* cb_answer's lookup: the first question of the topic, scanning the levels
\* easy, medium, hard in that order, whose id is qid.
RECURSIVE FirstWithId(_, _)
FirstWithId(qs, qid) ==
  IF qs = <<>> THEN NoQuestion
  ELSE IF Head(qs).id = qid THEN Head(qs)
  ELSE FirstWithId(Tail(qs), qid)

\* Variant: only the easy level is scanned.
FindQuestionAtEasy(topic, qid) ==
  FirstWithId(QuestionsAt(topic, levels[1]), qid)

FindQuestion(topic, qid) ==
  FirstWithId(QuestionsAt(topic, levels[1]) \o QuestionsAt(topic, levels[2])
              \o QuestionsAt(topic, levels[3]), qid)

\* Variant: every topic is in scope, whatever the topic asked for.
ScopeAll(topic) == QDB.order

\* choose_question, the scope: [topic] if topic != "Mixed" else list(QDB.keys())
ScopeOf(topic) == IF topic # Mixed THEN <<topic>> ELSE QDB.order

\* weights.get(t, 1.0)
WeightOf(weights, t) ==
  IF t \in DOMAIN weights THEN weights[t] ELSE InitialWeight

\* choose_question, the pool: (t, q, weight of t) for every topic in scope
\* and every question of t at the difficulty, in that order.
RECURSIVE PoolOf(_, _, _)
PoolOf(ts, difficulty, weights) ==
  IF ts = <<>> THEN <<>>
  ELSE [i \in 1..Len(QuestionsAt(Head(ts), difficulty)) |->
          <<Head(ts), QuestionsAt(Head(ts), difficulty)[i],
            WeightOf(weights, Head(ts))>>]
       \o PoolOf(Tail(ts), difficulty, weights)

RECURSIVE SumWeights(_)
SumWeights(pool) ==
  IF pool = <<>> THEN 0 ELSE Head(pool)[3] + SumWeights(Tail(pool))

\* Variant: the loop compares with > instead of >=.
RECURSIVE WalkFromStrict(_, _, _, _)
WalkFromStrict(pool, i, upto, r) ==
  IF i > Len(pool) THEN 0
  ELSE IF (upto + pool[i][3]) * DrawSteps > r THEN i
  ELSE WalkFromStrict(pool, i + 1, upto + pool[i][3], r)

\* The loop of choose_question: the index of the first entry with
\* upto + w >= r, or 0 when the loop ends without returning.  r counts
\* 1/DrawSteps of a tenth, so the comparison is scaled by DrawSteps.
RECURSIVE WalkFrom(_, _, _, _)
WalkFrom(pool, i, upto, r) ==
  IF i > Len(pool) THEN 0
  ELSE IF (upto + pool[i][3]) * DrawSteps >= r THEN i
  ELSE WalkFrom(pool, i + 1, upto + pool[i][3], r)

Walk(pool, r) == WalkFrom(pool, 1, 0, r)

\* random.random() * total lies in [0, total)
Draws(pool) == 0 .. (SumWeights(pool) * DrawSteps - 1)

\* choose_question(topic, difficulty, weights) with the draw r: the set of
\* values the call can return (the final random.choice can return any entry).
choose_question(topic, difficulty, weights, r) ==
  LET pool == PoolOf(ScopeOf(topic), difficulty, weights)
  IN IF pool = <<>> THEN {NoChoice}
     ELSE IF Walk(pool, r) # 0
          THEN {<<pool[Walk(pool, r)][1], pool[Walk(pool, r)][2]>>}
          ELSE {<<pool[i][1], pool[i][2]>> : i \in 1..Len(pool)}

\* send_question: the weights are read, then a question is chosen.
send_question(user_id, topic, difficulty) ==
  LET weights == get_topic_weights(user_id)
      pool == PoolOf(ScopeOf(topic), difficulty, weights)
  IN IF pool = <<>> THEN {NoChoice}
     ELSE UNION {choose_question(topic, difficulty, weights, r) :
                 r \in Draws(pool)}

\* ------------------------------------------------------------------ handlers
IdleLoc ==
  [handler |-> "", cmd |-> "", user_id |-> NoId, topic |-> "", qid |-> "",
   selected |-> "", u |-> None, q |-> NoQuestion, correct |-> FALSE,
   w |-> InitialWeight, chosen |-> NoChoice]

NoEff == [attempt |-> 0, streak |-> 0, weight |-> 0, difficulty |-> <<>>]
NoBase == [row |-> None, w |-> InitialWeight]

\* levels.index(d), counted from 0 as in the source
LevelIndex(d) == CHOOSE i \in 0..2 : levels[i + 1] = d
\* levels[i]: a negative index counts from the end of the list
LevelAt(i) == levels[IF i < 0 THEN i + Len(levels) + 1 ELSE i + 1]

\* Variant: the streak update leaves the opposite streak as it is.
StreakUpdateNoReset(u, correct) ==
  IF correct
  THEN [correct_streak |-> u.correct_streak + 1]
  ELSE [wrong_streak |-> u.wrong_streak + 1]

\* cb_answer, the keyword arguments of its streak update
StreakUpdate(u, correct) ==
  IF correct
  THEN [correct_streak |-> u.correct_streak + 1, wrong_streak |-> 0]
  ELSE [correct_streak |-> 0, wrong_streak |-> u.wrong_streak + 1]

\* Variant: the two deltas are exchanged.
AnswerDeltaSwapped(correct) == IF correct THEN DeltaWrong ELSE DeltaCorrect

\* cb_answer, the weight delta of an answer
AnswerDelta(correct) == IF correct THEN DeltaCorrect ELSE DeltaWrong

\* Variants: the thresholds are compared with > instead of >=.
UpCheckLate(u) == u.correct_streak > UpStreak /\ LevelIndex(u.difficulty) < 2
DownCheckLate(u) == u.wrong_streak > DownStreak /\ LevelIndex(u.difficulty) > 0

\* Variant: the down-check does not look at the level.
DownCheckNoGuard(u) == u.wrong_streak >= DownStreak

\* cb_answer, the two difficulty checks on the row read after the updates
UpCheck(u) == u.correct_streak >= UpStreak /\ LevelIndex(u.difficulty) < 2
DownCheck(u) == u.wrong_streak >= DownStreak /\ LevelIndex(u.difficulty) > 0

\* Variant: a difficulty change also sets both streaks back to 0.
LevelWriteReset(d) ==
  [difficulty |-> d, correct_streak |-> 0, wrong_streak |-> 0]

\* cb_answer, lines 296 and 299: the keyword arguments of a difficulty change
LevelWrite(d) == [difficulty |-> d]

\* The arguments the handler passes to send_question.
SendTopic(l) == IF l.handler = "cb_start_quiz" THEN l.topic ELSE l.u.active_topic

\* Task p is suspended at label and is the one to run.  A task that has ended
\* leaves (Return) before any other task takes a step: Return touches nothing
\* the tasks share, so the order loses no behaviour of the store.
At(p, label) ==
  /\ pc[p] = label
  /\ \A o \in Procs \ {p} : pc[o] \notin {"done", "failed"}

\* A handler task starts on an update and runs to its first database
\* statement, after which it is suspended at `first`.
Begin(p, inp, l, first) ==
  /\ At(p, "idle")
  /\ pc' = [pc EXCEPT ![p] = first]
  /\ loc' = [loc EXCEPT ![p] = l]
  /\ eff' = [eff EXCEPT ![p] = NoEff]
  /\ base' = [base EXCEPT ![p] =
                IF inp.track
                THEN [row |-> get_user(l.user_id),
                      w |-> IF l.topic \in Topics
                            THEN StoredWeight(l.user_id, l.topic)
                            ELSE InitialWeight]
                ELSE NoBase]
  \* the tasks are interchangeable: an update goes to the first free one
  /\ \A o \in Procs : o < p => pc[o] # "idle"
  \* no running call is overlapped by more than inp.overlap other calls
  /\ \A o \in Procs \ {p} : pc[o] # "idle" => ov[o] < inp.overlap
  /\ ov' = [o \in Procs |->
              IF o = p THEN Cardinality({r \in Procs \ {p} : pc[r] # "idle"})
              ELSE IF pc[o] # "idle" THEN ov[o] + 1 ELSE ov[o]]
  /\ UNCHANGED <<QDB, users, topic_stats, attempts, hist, sel>>

\* ensure_user, line 61: SELECT id FROM users WHERE id = ?, and where the
\* handler goes from there.
AfterEnsure(handler) == IF handler = "cmd_start" THEN "done" ELSE "sq_update"
EnsureSelect(handler, user_id) ==
  IF user_id \in DOMAIN users THEN AfterEnsure(handler) ELSE "ensure_insert"

\* /start (and the Quiz menu): ensure_user and a reply.
cmd_start(p, inp) ==
  \E user_id \in inp.ids :
    Begin(p, inp,
          [IdleLoc EXCEPT !.handler = "cmd_start", !.user_id = user_id],
          EnsureSelect("cmd_start", user_id))

\* The start_quiz|<topic> callback, lines 247-248.
cb_start_quiz(p, inp) ==
  \E user_id \in inp.ids, topic \in inp.start :
    Begin(p, inp,
          [IdleLoc EXCEPT !.handler = "cb_start_quiz",
                          !.user_id = user_id, !.topic = topic],
          EnsureSelect("cb_start_quiz", user_id))

\* Variant: a skip is recorded like an answer.
AfterGetUserSkipRecords(cmd, u, q) ==
  IF cmd # "skip" /\ q = NoQuestion THEN "done" ELSE "ans_record"

\* cb_answer, lines 265-279: where the handler goes once u is read.  With no
\* row the skip branch raises on u["active_topic"]; an unknown question id
\* ends the call.
AfterGetUser(cmd, u, q) ==
  IF cmd = "skip" THEN (IF u = None THEN "failed" ELSE "send")
  ELSE IF q = NoQuestion THEN "done"
  ELSE "ans_record"

\* The answer|<topic>|<qid>|<option> and skip|<topic>|<qid> callbacks, lines
\* 259-281: u = get_user(...), the skip branch, the lookup of the question
\* and correct = (selected == q["answer"]).  inp.cap bounds the attempt log.
cb_answer(p, inp) ==
  \E cmd \in inp.cmds, user_id \in inp.ids, call \in inp.calls,
     selected \in {"x", "y"} :
    LET topic == call[1]
        qid == call[2]
        u == get_user(user_id)
        q == IF cmd = "skip" THEN NoQuestion ELSE FindQuestion(topic, qid)
    IN /\ cmd = "skip" => selected = "x" /\ qid = "zz"
       /\ cmd = "answer" =>
            Len(attempts) + Cardinality({o \in Procs : pc[o] = "ans_record"})
              < inp.cap
       /\ Begin(p, inp,
                [IdleLoc EXCEPT !.handler = "cb_answer", !.cmd = cmd,
                                !.user_id = user_id, !.topic = topic,
                                !.qid = qid, !.selected = selected,
                                !.u = u, !.q = q,
                                !.correct = (q # NoQuestion /\ selected = q.answer)],
                AfterGetUser(cmd, u, q))

Goto(p, label) == pc' = [pc EXCEPT ![p] = label]

\* ensure_user, lines 63-73: the inserts and their commit.  A row inserted by
\* another task since the SELECT makes the INSERT fail on the primary key.
EnsureInsert(p) ==
  /\ At(p, "ensure_insert")
  /\ IF loc[p].user_id \in DOMAIN users
     THEN /\ Goto(p, "failed")
          /\ UNCHANGED <<users, topic_stats>>
     ELSE /\ users' = [k \in DOMAIN users \cup {loc[p].user_id} |->
                         IF k = loc[p].user_id THEN NewUserRow(k) ELSE users[k]]
          /\ topic_stats' = InsertWeights(topic_stats, loc[p].user_id, QDB.order)
          /\ Goto(p, AfterEnsure(loc[p].handler))
  /\ UNCHANGED <<QDB, attempts, loc, eff, base, hist, ov, sel>>

\* cb_start_quiz, line 249: update_user(active_topic=topic)
SetActiveTopic(p) ==
  /\ At(p, "sq_update")
  /\ users' = update_user(loc[p].user_id, [active_topic |-> loc[p].topic])
  /\ Goto(p, "sq_get_user")
  /\ UNCHANGED <<QDB, topic_stats, attempts, loc, eff, base, hist, ov, sel>>

\* cb_start_quiz, line 250: u = get_user(...)
QuizGetUser(p) ==
  /\ At(p, "sq_get_user")
  /\ loc' = [loc EXCEPT ![p].u = get_user(loc[p].user_id)]
  /\ Goto(p, "send")
  /\ UNCHANGED <<QDB, users, topic_stats, attempts, eff, base, hist, ov, sel>>

\* cb_answer, line 282: record_attempt.  Lines 284 and 288 then read
\* u["correct_streak"] or u["wrong_streak"], which raises when u is None.
AnsRecord(p) ==
  /\ At(p, "ans_record")
  /\ attempts' = record_attempt(loc[p].user_id, loc[p].qid, loc[p].correct)
  /\ eff' = [eff EXCEPT ![p].attempt = @ + 1]
  /\ Goto(p, IF loc[p].u = None THEN "failed" ELSE "ans_streak")
  /\ UNCHANGED <<QDB, users, topic_stats, loc, base, hist, ov, sel>>

\* cb_answer, lines 284 and 288: update_user with the streaks computed from
\* the row read at line 263.
AnsStreak(p) ==
  /\ At(p, "ans_streak")
  /\ users' = update_user(loc[p].user_id, StreakUpdate(loc[p].u, loc[p].correct))
  /\ eff' = [eff EXCEPT ![p].streak = @ + 1]
  /\ Goto(p, "ans_weight_read")
  /\ UNCHANGED <<QDB, topic_stats, attempts, loc, base, hist, ov, sel>>

\* update_topic_weight, lines 105-110: the SELECT of the stored weight.
AnsWeightRead(p) ==
  /\ At(p, "ans_weight_read")
  /\ loc' = [loc EXCEPT ![p].w = StoredWeight(loc[p].user_id, loc[p].topic)]
  /\ Goto(p, "ans_weight_write")
  /\ UNCHANGED <<QDB, users, topic_stats, attempts, eff, base, hist, ov, sel>>

\* update_topic_weight, lines 111-116: the clamp, the INSERT OR REPLACE and
\* the commit.
AnsWeightWrite(p) ==
  /\ At(p, "ans_weight_write")
  /\ topic_stats' = Upsert(topic_stats, loc[p].user_id, loc[p].topic,
                           ClampedWeight(loc[p].w, AnswerDelta(loc[p].correct)))
  /\ eff' = [eff EXCEPT ![p].weight = @ + 1]
  /\ Goto(p, "ans_get_user2")
  /\ UNCHANGED <<QDB, users, attempts, loc, base, hist, ov, sel>>

AfterUp(u) == IF DownCheck(u) THEN "ans_down" ELSE "send"
AfterRead(u) == IF UpCheck(u) THEN "ans_up" ELSE AfterUp(u)

\* cb_answer, lines 292-294: u = get_user(...) again.
AnsGetUser2(p) ==
  /\ At(p, "ans_get_user2")
  /\ loc' = [loc EXCEPT ![p].u = get_user(loc[p].user_id)]
  /\ Goto(p, AfterRead(get_user(loc[p].user_id)))
  /\ UNCHANGED <<QDB, users, topic_stats, attempts, eff, base, hist, ov, sel>>

\* cb_answer, lines 295-297: update_user(difficulty=levels[idx + 1])
AnsUp(p) ==
  /\ At(p, "ans_up")
  /\ LET d == LevelAt(LevelIndex(loc[p].u.difficulty) + 1)
     IN /\ users' = update_user(loc[p].user_id, LevelWrite(d))
        /\ eff' = [eff EXCEPT ![p].difficulty = Append(@, d)]
  /\ Goto(p, AfterUp(loc[p].u))
  /\ UNCHANGED <<QDB, topic_stats, attempts, loc, base, hist, ov, sel>>

\* cb_answer, lines 298-300: update_user(difficulty=levels[idx - 1])
AnsDown(p) ==
  /\ At(p, "ans_down")
  /\ LET d == LevelAt(LevelIndex(loc[p].u.difficulty) - 1)
     IN /\ users' = update_user(loc[p].user_id, LevelWrite(d))
        /\ eff' = [eff EXCEPT ![p].difficulty = Append(@, d)]
  /\ Goto(p, "send")
  /\ UNCHANGED <<QDB, topic_stats, attempts, loc, base, hist, ov, sel>>

\* One finished answer call, as kept in hist: the learner's difficulty and
\* streaks as stored when the call began and when it ended.
Progress(row) ==
  [difficulty |-> row.difficulty, correct_streak |-> row.correct_streak,
   wrong_streak |-> row.wrong_streak]

HistEntry(p) ==
  [correct |-> loc[p].correct, topic |-> loc[p].topic,
   before |-> Progress(base[p].row),
   after |-> Progress(get_user(loc[p].user_id)),
   w_before |-> base[p].w,
   w_after |-> StoredWeight(loc[p].user_id, loc[p].topic),
   wrote |-> eff[p].difficulty, sent |-> loc[p].u.difficulty]

\* send_question (lines 154-172) as called at lines 255, 267 and 302, and the
\* handler's return.
SendQuestion(p, inp) ==
  /\ At(p, "send")
  /\ \E c \in send_question(loc[p].user_id, SendTopic(loc[p]), loc[p].u.difficulty) :
       loc' = [loc EXCEPT ![p].chosen = c]
  /\ hist' = IF inp.track /\ loc[p].handler = "cb_answer" /\ loc[p].cmd = "answer"
             THEN [hist EXCEPT ![loc[p].user_id] = Append(@, HistEntry(p))]
             ELSE hist
  /\ Goto(p, "done")
  /\ UNCHANGED <<QDB, users, topic_stats, attempts, eff, base, ov, sel>>

\* The task ends (returned, or raised) and the dispatcher takes the next update.
Return(p) ==
  /\ pc[p] \in {"done", "failed"}
  /\ Goto(p, "idle")
  /\ loc' = [loc EXCEPT ![p] = IdleLoc]
  /\ eff' = [eff EXCEPT ![p] = NoEff]
  /\ base' = [base EXCEPT ![p] = NoBase]
  /\ ov' = [ov EXCEPT ![p] = 0]
  /\ UNCHANGED <<QDB, users, topic_stats, attempts, hist, sel>>

\* -------------------------------------------------------------- specifications
NoSel == [topic |-> "", difficulty |-> "", weights |-> <<>>, r |-> 0,
          result |-> NoChoice, ran |-> FALSE]

InitStore ==
  /\ users = <<>>
  /\ topic_stats = <<>>
  /\ attempts = <<>>
  /\ pc = [p \in Procs |-> "idle"]
  /\ loc = [p \in Procs |-> IdleLoc]
  /\ eff = [p \in Procs |-> NoEff]
  /\ base = [p \in Procs |-> NoBase]
  /\ hist = [i \in UserIds |-> <<>>]
  /\ ov = [p \in Procs |-> 0]

Init ==
  /\ QDB = Bank1
  /\ InitStore
  /\ sel = NoSel

Step(p, inp) ==
  \/ cmd_start(p, inp)
  \/ cb_start_quiz(p, inp)
  \/ cb_answer(p, inp)
  \/ EnsureInsert(p)
  \/ SetActiveTopic(p)
  \/ QuizGetUser(p)
  \/ AnsRecord(p)
  \/ AnsStreak(p)
  \/ AnsWeightRead(p)
  \/ AnsWeightWrite(p)
  \/ AnsGetUser2(p)
  \/ AnsUp(p)
  \/ AnsDown(p)
  \/ SendQuestion(p, inp)
  \/ Return(p)

\* The steps of cmd_start and cb_answer.
AnswerStep(p, inp) ==
  \/ cmd_start(p, inp)
  \/ cb_answer(p, inp)
  \/ EnsureInsert(p)
  \/ AnsRecord(p)
  \/ AnsStreak(p)
  \/ AnsWeightRead(p)
  \/ AnsWeightWrite(p)
  \/ AnsGetUser2(p)
  \/ AnsUp(p)
  \/ AnsDown(p)
  \/ SendQuestion(p, inp)
  \/ Return(p)

\* Two handler tasks answering for one learner, interleaved at their awaits.
ConcInputs ==
  [cap |-> MaxAttempts, ids |-> {1},
   calls |-> {<<"A", "a1">>, <<"A", "zz">>}, start |-> {Mixed, "A"},
   track |-> FALSE, cmds |-> {"answer"}, overlap |-> MaxOverlap]

Next == \E p \in Procs : AnswerStep(p, ConcInputs)

Spec == Init /\ [][Next]_vars

\* One update handled at a time.
SeqInputs ==
  [cap |-> MaxAttemptsSeq, ids |-> {1},
   calls |-> {<<"A", "a1">>, <<"A", "zz">>}, start |-> {Mixed, "A"},
   track |-> TRUE, cmds |-> {"answer", "skip"}, overlap |-> MaxOverlap]

NextSeq == Step(1, SeqInputs)

SpecSeq == Init /\ [][NextSeq]_vars

\* choose_question on its own: any bank, scope, difficulty, weights >= 0.1
\* and draw.
SelectQuestion ==
  /\ \E topic \in Topics \cup {Mixed}, difficulty \in SeqToSet(levels),
        weights \in [Topics -> MinWeight..MaxSelWeight] :
       LET pool == PoolOf(ScopeOf(topic), difficulty, weights)
       IN \E r \in (IF pool = <<>> THEN {0} ELSE Draws(pool)) :
            \E res \in choose_question(topic, difficulty, weights, r) :
              sel' = [topic |-> topic, difficulty |-> difficulty,
                      weights |-> weights, r |-> r, result |-> res,
                      ran |-> TRUE]
  /\ UNCHANGED <<QDB, users, topic_stats, attempts, pc, loc, eff, base, hist, ov>>

InitSel ==
  /\ QDB \in {Bank1, Bank2}
  /\ InitStore
  /\ sel = NoSel

NextSel == SelectQuestion

SpecSel == InitSel /\ [][NextSel]_vars

\* One update handled at a time; the answers name a hard question of topic
\* A, an id that only topic B has, and the question of topic B.
TopicInputs ==
  [cap |-> MaxAttemptsTopics, ids |-> {1},
   calls |-> {<<"A", "a3">>, <<"A", "b1">>, <<"B", "b1">>}, start |-> {Mixed},
   track |-> FALSE, cmds |-> {"answer"}, overlap |-> MaxOverlap]

NextTopics == AnswerStep(1, TopicInputs)

SpecTopics == Init /\ [][NextTopics]_vars

\* One update handled at a time; every answer is to b1, the one question of
\* topic B, which the bank lists after topic A.
RunInputs ==
  [cap |-> MaxAttemptsRun, ids |-> {1},
   calls |-> {<<"B", "b1">>}, start |-> {Mixed},
   track |-> TRUE, cmds |-> {"answer"}, overlap |-> MaxOverlap]

NextRun == AnswerStep(1, RunInputs)

SpecRun == Init /\ [][NextRun]_vars

\* A store the handlers reach: learner 1 has sent /start and answered a1
\* correctly three times (medium, correct_streak 3, the weight of A lowered
\* three times), learner 2 has only sent /start.
StoredLog ==
  <<AttemptRow(1, "a1", TRUE), AttemptRow(1, "a1", TRUE),
    AttemptRow(1, "a1", TRUE)>>

InitAnswered ==
  /\ QDB = Bank1
  /\ users = [i \in UserIds |->
                IF i = 1
                THEN [NewUserRow(1) EXCEPT !.difficulty = "medium",
                                           !.correct_streak = UpStreak]
                ELSE NewUserRow(i)]
  /\ topic_stats = [k \in UserIds \X {"A", "B"} |->
                      IF k = <<1, "A">>
                      THEN InitialWeight + DeltaCorrect + DeltaCorrect + DeltaCorrect
                      ELSE InitialWeight]
  /\ attempts = StoredLog
  /\ pc = [p \in Procs |-> "idle"]
  /\ loc = [p \in Procs |-> IdleLoc]
  /\ eff = [p \in Procs |-> NoEff]
  /\ base = [p \in Procs |-> NoBase]
  /\ hist = [i \in UserIds |-> <<>>]
  /\ ov = [p \in Procs |-> 0]
  /\ sel = NoSel

\* The steps of cb_answer alone.
AnswerOnlyStep(p, inp) ==
  \/ cb_answer(p, inp)
  \/ AnsRecord(p)
  \/ AnsStreak(p)
  \/ AnsWeightRead(p)
  \/ AnsWeightWrite(p)
  \/ AnsGetUser2(p)
  \/ AnsUp(p)
  \/ AnsDown(p)
  \/ SendQuestion(p, inp)
  \/ Return(p)

\* Two handler tasks answering a1 for learner 1; a call may be overlapped by
\* two others.
RaceInputs ==
  [cap |-> Len(StoredLog) + MaxRaceAnswers, ids |-> {1},
   calls |-> {<<"A", "a1">>}, start |-> {Mixed},
   track |-> FALSE, cmds |-> {"answer"}, overlap |-> MaxOverlapRace]

NextRace == \E p \in Procs : AnswerOnlyStep(p, RaceInputs)

SpecRace == InitAnswered /\ [][NextRace]_vars

\* Two handler tasks answering for two learners on two topics.
TwoInputs ==
  [cap |-> Len(StoredLog) + MaxTwoAnswers, ids |-> UserIds,
   calls |-> {<<"A", "a1">>, <<"B", "b1">>}, start |-> {Mixed},
   track |-> FALSE, cmds |-> {"answer"}, overlap |-> MaxOverlap]

NextTwo == \E p \in Procs : AnswerOnlyStep(p, TwoInputs)

SpecTwo == InitAnswered /\ [][NextTwo]_vars

\* ----------------------------------------------------------------- claims
Answered(p) ==
  loc[p].handler = "cb_answer" /\ loc[p].cmd = "answer" /\ loc[p].q # NoQuestion

\* C1: in every state reached by interleaved cmd_start and cb_answer tasks,
\* no learner row has correct_streak > 0 and wrong_streak > 0 together.
C1_StreakExclusion ==
  \A id \in DOMAIN users :
    ~(users[id].correct_streak > 0 /\ users[id].wrong_streak > 0)

\* A correct answer that overlapped another call has written its streaks,
\* and the learner's correct streak stands at 2 or more.
C1_Witness ==
  \E p \in Procs :
    /\ Answered(p) /\ loc[p].correct /\ eff[p].streak = 1 /\ ov[p] >= 1
    /\ loc[p].user_id \in DOMAIN users
    /\ users[loc[p].user_id].correct_streak >= 2
    /\ users[loc[p].user_id].wrong_streak = 0

\* C2: every stored topic weight is at least the floor 0.1, after any
\* sequence of correct (-0.3) and incorrect (+0.5) answers.
C2_WeightFloor ==
  \A k \in DOMAIN topic_stats : topic_stats[k] >= MinWeight

\* A call has written a weight whose sum w + delta lay below the floor, and
\* the stored weight is the floor.
C2_Witness ==
  \E p \in Procs :
    /\ Answered(p) /\ eff[p].weight = 1
    /\ loc[p].w + AnswerDelta(loc[p].correct) < MinWeight
    /\ topic_stats[<<loc[p].user_id, loc[p].topic>>] = MinWeight

\* C3: update_topic_weight is atomic per (learner, topic): every write stores
\* the clamped increment of the weight that is stored when the write is
\* made, so the adjustments of concurrent calls take effect one after the
\* other in the order of their writes and none of them is lost.
C3_AtomicWeightAdjust ==
  [][\A p \in Procs :
       (pc[p] = "ans_weight_write" /\ pc'[p] # "ans_weight_write") =>
         topic_stats'[<<loc[p].user_id, loc[p].topic>>] =
           Max(MinWeight, StoredWeight(loc[p].user_id, loc[p].topic)
                            + (IF loc[p].correct THEN DeltaCorrect ELSE DeltaWrong))]_vars

\* C4: no streak update is lost: every streak write stores the streaks that
\* follow from the row that is stored when the write is made (a correct
\* answer adds 1 to the stored correct_streak, an incorrect one adds 1 to the
\* stored wrong_streak), so two concurrent correct answers from n leave n + 2.
C4_NoLostStreakUpdate ==
  [][\A p \in Procs :
       (pc[p] = "ans_streak" /\ pc'[p] # "ans_streak"
        /\ loc[p].user_id \in DOMAIN users) =>
         LET old == users[loc[p].user_id]
             new == users'[loc[p].user_id]
         IN IF loc[p].correct
            THEN new.correct_streak = old.correct_streak + 1 /\ new.wrong_streak = 0
            ELSE new.wrong_streak = old.wrong_streak + 1 /\ new.correct_streak = 0]_vars

\* The finished answer calls i .. j of learner id are all correct.
AllCorrect(id, i, j) == \A k \in i..j : hist[id][k].correct

\* C5: from difficulty easy with both streaks 0, three consecutive correct
\* answers leave the difficulty easy after the first and the second call and
\* medium after the third; only the third call writes a difficulty, and it
\* writes medium (none of the three writes hard).
C5_UpThreshold ==
  \A id \in UserIds : \A i \in 1..Len(hist[id]) :
    (/\ hist[id][i].before.difficulty = "easy"
     /\ hist[id][i].before.correct_streak = 0
     /\ hist[id][i].before.wrong_streak = 0) =>
      \A k \in 0..2 :
        (i + k <= Len(hist[id]) /\ AllCorrect(id, i, i + k)) =>
          /\ hist[id][i + k].after.difficulty = (IF k < 2 THEN "easy" ELSE "medium")
          /\ hist[id][i + k].wrote = (IF k < 2 THEN <<>> ELSE <<"medium">>)

\* Three consecutive correct answers from (easy, 0, 0) have been given and
\* the learner is at medium.
C5_Witness ==
  \E id \in UserIds : \E i \in 1..Len(hist[id]) :
    /\ i + 2 = Len(hist[id])
    /\ hist[id][i].before = [difficulty |-> "easy", correct_streak |-> 0,
                             wrong_streak |-> 0]
    /\ AllCorrect(id, i, i + 2)
    /\ id \in DOMAIN users /\ users[id].difficulty = "medium"

\* C6: from difficulty hard with wrong_streak 0, two consecutive incorrect
\* answers leave the difficulty hard after the first call and medium after
\* the second; only the second call writes a difficulty, and it writes
\* medium (neither call writes easy).
C6_DownThreshold ==
  \A id \in UserIds : \A i \in 1..Len(hist[id]) :
    (/\ hist[id][i].before.difficulty = "hard"
     /\ hist[id][i].before.wrong_streak = 0) =>
      \A k \in 0..1 :
        (i + k <= Len(hist[id]) /\ \A j \in i..(i + k) : ~hist[id][j].correct) =>
          /\ hist[id][i + k].after.difficulty = (IF k < 1 THEN "hard" ELSE "medium")
          /\ hist[id][i + k].wrote = (IF k < 1 THEN <<>> ELSE <<"medium">>)

\* Two consecutive incorrect answers from hard have been given and the
\* learner is at medium.
C6_Witness ==
  \E id \in UserIds : \E i \in 1..Len(hist[id]) :
    /\ i + 1 = Len(hist[id])
    /\ hist[id][i].before.difficulty = "hard"
    /\ hist[id][i].before.wrong_streak = 0
    /\ ~hist[id][i].correct /\ ~hist[id][i + 1].correct
    /\ id \in DOMAIN users /\ users[id].difficulty = "medium"

C8_AllOrNothing ==
  \A p \in Procs :
    (pc[p] \in {"done", "failed"} /\ loc[p].handler = "cb_answer") =>
      \/ eff[p].attempt = 0 /\ eff[p].streak = 0 /\ eff[p].weight = 0
      \/ eff[p].attempt = 1 /\ eff[p].streak = 1 /\ eff[p].weight = 1

\* C9: a correct answer stores max(0.1, w - 0.3) as the topic's weight and
\* correct_streak + 1; an incorrect answer stores max(0.1, w + 0.5) and
\* wrong_streak + 1, w and the streaks being those stored before the call.
\* A new learner's first answers to topic A, if all correct, leave the
\* weights 0.7, 0.4, 0.1, 0.1, ... and the first leaves correct_streak 1.
C9_WeightRule ==
  \A id \in UserIds : \A i \in 1..Len(hist[id]) :
    LET h == hist[id][i]
    IN /\ h.correct =>
            /\ h.w_after = Max(1, h.w_before - 3)
            /\ h.after.correct_streak = h.before.correct_streak + 1
       /\ ~h.correct =>
            /\ h.w_after = Max(1, h.w_before + 5)
            /\ h.after.wrong_streak = h.before.wrong_streak + 1
       /\ (AllCorrect(id, 1, i) /\ \A k \in 1..i : hist[id][k].topic = "A") =>
            /\ h.w_before = (IF i = 1 THEN 10 ELSE IF i = 2 THEN 7
                             ELSE IF i = 3 THEN 4 ELSE 1)
            /\ h.w_after = (IF i = 1 THEN 7 ELSE IF i = 2 THEN 4 ELSE 1)
            /\ h.after.correct_streak = i

\* A new learner has answered topic A correctly five times and incorrectly
\* once after that: the weights went 1.0, 0.7, 0.4, 0.1, 0.1, 0.1 and 0.6.
C9_Witness ==
  \E id \in UserIds :
    /\ Len(hist[id]) = 6
    /\ AllCorrect(id, 1, 5) /\ ~hist[id][6].correct
    /\ hist[id][4].w_before = 1 /\ hist[id][4].w_after = 1
    /\ hist[id][6].w_after = 6
    /\ topic_stats[<<id, "A">>] = 6

\* C10: choose_question returns nothing when no topic in scope has a
\* question at the difficulty; otherwise it returns (t, q) with t in scope
\* and q one of t's questions at exactly that difficulty.
C10_PoolConfinement ==
  sel.ran =>
    LET scope == IF sel.topic = Mixed THEN Topics ELSE {sel.topic}
        level(t) == IF sel.difficulty \in DOMAIN QDB.questions[t]
                    THEN SeqToSet(QDB.questions[t][sel.difficulty])
                    ELSE {}
    IN IF \A t \in scope : level(t) = {}
       THEN sel.result = NoChoice
       ELSE /\ sel.result # NoChoice
            /\ sel.result[1] \in scope
            /\ sel.result[2] \in level(sel.result[1])

\* Mixed was asked for at a difficulty no topic has a question at, and
\* nothing was returned.
C10_Witness ==
  /\ sel.ran /\ sel.topic = Mixed /\ sel.result = NoChoice
  /\ \E t \in Topics : DOMAIN QDB.questions[t] # {}

\* C11: ensure_user creates a learner that has no row with difficulty easy,
\* both streaks 0, active topic Mixed and weight 1.0 for every topic of the
\* bank; when the learner has a row, whatever answers and topic choices
\* came before, the call leaves users and topic_stats exactly as they are.
C11_EnsureIdempotent ==
  [][\A p \in Procs :
       (/\ pc[p] \in {"idle", "ensure_insert"}
        /\ pc'[p] # pc[p]
        /\ loc'[p].handler \in {"cmd_start", "cb_start_quiz"}) =>
         LET id == loc'[p].user_id
         IN IF id \in DOMAIN users
            THEN users' = users /\ topic_stats' = topic_stats
            ELSE pc[p] = "ensure_insert" =>
                   /\ users'[id] = [id |-> id, difficulty |-> "easy",
                                    correct_streak |-> 0, wrong_streak |-> 0,
                                    active_topic |-> "Mixed"]
                   /\ \A t \in Topics : topic_stats'[<<id, t>>] = 10
                   /\ \A o \in DOMAIN users : users'[o] = users[o]
                   /\ \A k \in DOMAIN topic_stats : topic_stats'[k] = topic_stats[k]]_vars

\* /start has returned for a learner who is at medium with active topic A
\* and a lowered weight for A: nothing was set back to the defaults.
C11_Witness ==
  \E p \in Procs :
    /\ pc[p] = "done" /\ loc[p].handler = "cmd_start"
    /\ loc[p].user_id \in DOMAIN users
    /\ users[loc[p].user_id].difficulty = "medium"
    /\ users[loc[p].user_id].correct_streak = 3
    /\ users[loc[p].user_id].active_topic = "A"
    /\ topic_stats[<<loc[p].user_id, "A">>] < 10

\* C12: no step of a skip call changes users, topic_stats or attempts; the
\* one thing the call does, for a learner who has a row, is choose a question
\* among those of the stored active topic (every topic for Mixed) at the
\* stored difficulty, or none when there is no such question.
C12_SkipNoChange ==
  [][\A p \in Procs :
       ((loc[p].cmd = "skip" \/ loc'[p].cmd = "skip") /\ pc'[p] # pc[p]) =>
         /\ users' = users /\ topic_stats' = topic_stats /\ attempts' = attempts
         /\ pc[p] \in {"idle", "send", "done", "failed"}
         /\ pc[p] = "send" =>
              LET row == users[loc[p].user_id]
                  scope == IF row.active_topic = "Mixed" THEN Topics
                           ELSE {row.active_topic}
                  cands == UNION {{<<t, q>> : q \in SeqToSet(QuestionsAt(t, row.difficulty))} :
                                  t \in scope}
              IN /\ pc'[p] = "done"
                 /\ loc'[p].chosen \in (IF cands = {} THEN {NoChoice} ELSE cands)]_vars

\* A skip has returned with a question chosen for a learner at medium who
\* has answered three times or more.
C12_Witness ==
  \E p \in Procs :
    /\ pc[p] = "done" /\ loc[p].cmd = "skip"
    /\ loc[p].chosen # NoChoice
    /\ users[loc[p].user_id].difficulty = "medium"
    /\ Len(attempts) >= 3

\* Some level of the topic lists a question with this id.
IdInTopic(topic, qid) ==
  \E l \in DOMAIN QDB.questions[topic] :
    \E i \in 1..Len(QDB.questions[topic][l]) :
      QDB.questions[topic][l][i].id = qid

\* C13: the lookup of an answer call finds the question exactly when its id
\* is listed at some level of the given topic, whatever the learner's
\* difficulty; a call whose id is listed at no level of the topic ends as
\* "not found" at once and changes neither attempts nor users nor
\* topic_stats.
C13_UnknownQuestion ==
  /\ [](\A p \in Procs :
          (loc[p].handler = "cb_answer" /\ loc[p].cmd = "answer") =>
            /\ (loc[p].q = NoQuestion) <=> ~IdInTopic(loc[p].topic, loc[p].qid)
            /\ loc[p].q # NoQuestion => loc[p].q.id = loc[p].qid)
  /\ [][\A p \in Procs :
          (/\ loc'[p].handler = "cb_answer" /\ loc'[p].cmd = "answer"
           /\ ~IdInTopic(loc'[p].topic, loc'[p].qid)
           /\ pc'[p] # pc[p]) =>
            /\ pc'[p] = "done"
            /\ eff'[p] = [attempt |-> 0, streak |-> 0, weight |-> 0,
                          difficulty |-> <<>>]
            /\ users' = users /\ topic_stats' = topic_stats
            /\ attempts' = attempts]_vars

\* An answer naming, under topic A, an id that only topic B lists has ended
\* as not found with nothing written, for a learner whose first logged
\* answer was to the hard question a3.
C13_Witness ==
  \E p \in Procs :
    /\ pc[p] = "done" /\ loc[p].handler = "cb_answer" /\ loc[p].cmd = "answer"
    /\ loc[p].topic = "A" /\ loc[p].qid = "b1" /\ loc[p].q = NoQuestion
    /\ loc[p].user_id \in DOMAIN users
    /\ Len(attempts) >= 1
    /\ attempts[1].qid = "a3" /\ attempts[1].user_id = loc[p].user_id
    /\ users[loc[p].user_id].correct_streak + users[loc[p].user_id].wrong_streak >= 1

\* C14: in every interleaving of answer calls, each change of a learner's
\* stored difficulty goes to an adjacent level, and no call writes the
\* difficulty more than once.
C14_AdjacentSteps ==
  /\ [][\A id \in DOMAIN users :
          (id \in DOMAIN users' /\ users'[id].difficulty # users[id].difficulty) =>
            \/ LevelIndex(users'[id].difficulty) = LevelIndex(users[id].difficulty) + 1
            \/ LevelIndex(users'[id].difficulty) = LevelIndex(users[id].difficulty) - 1]_vars
  /\ [](\A p \in Procs : Len(eff[p].difficulty) <= 1)

\* C15: every stored difficulty is easy, medium or hard; an answer call made
\* at hard that leaves correct_streak >= 3 writes no difficulty and leaves
\* hard, and one made at easy that leaves wrong_streak >= 2 writes no
\* difficulty and leaves easy.
C15_DifficultyInRange ==
  /\ \A id \in DOMAIN users : users[id].difficulty \in {"easy", "medium", "hard"}
  /\ \A id \in UserIds : \A i \in 1..Len(hist[id]) :
       LET h == hist[id][i]
       IN /\ (h.before.difficulty = "hard" /\ h.after.correct_streak >= 3) =>
               h.after.difficulty = "hard" /\ h.wrote = <<>>
          /\ (h.before.difficulty = "easy" /\ h.after.wrong_streak >= 2) =>
               h.after.difficulty = "easy" /\ h.wrote = <<>>

\* Two incorrect answers at easy and then five correct ones: the second call
\* left wrong_streak 2 at easy, the seventh left correct_streak 5 at hard.
C15_Witness ==
  \E id \in UserIds :
    /\ Len(hist[id]) = 7
    /\ hist[id][2].before.difficulty = "easy"
    /\ hist[id][2].after.wrong_streak = 2
    /\ hist[id][7].before.difficulty = "hard"
    /\ hist[id][7].after.correct_streak = 5
    /\ users[id].difficulty = "hard"

\* C16: a call that writes a difficulty leaves the streaks as its streak
\* update set them (a correct answer: correct_streak + 1 and 0; an incorrect
\* one: 0 and wrong_streak + 1); so four consecutive correct answers from
\* (easy, 0, 0) leave easy, easy, medium, hard and three consecutive
\* incorrect answers from hard with wrong_streak 0 leave hard, medium, easy.
C16_StreaksSurvive ==
  \A id \in UserIds : \A i \in 1..Len(hist[id]) :
    LET h == hist[id][i]
    IN /\ h.wrote # <<>> =>
            /\ h.after.correct_streak =
                 (IF h.correct THEN h.before.correct_streak + 1 ELSE 0)
            /\ h.after.wrong_streak =
                 (IF h.correct THEN 0 ELSE h.before.wrong_streak + 1)
       /\ (/\ h.before.difficulty = "easy"
           /\ h.before.correct_streak = 0
           /\ h.before.wrong_streak = 0) =>
            \A k \in 0..3 :
              (i + k <= Len(hist[id]) /\ AllCorrect(id, i, i + k)) =>
                hist[id][i + k].after.difficulty =
                  (IF k < 2 THEN "easy" ELSE IF k = 2 THEN "medium" ELSE "hard")
       /\ (h.before.difficulty = "hard" /\ h.before.wrong_streak = 0) =>
            \A k \in 0..2 :
              (i + k <= Len(hist[id]) /\ \A j \in i..(i + k) : ~hist[id][j].correct) =>
                hist[id][i + k].after.difficulty =
                  (IF k = 0 THEN "hard" ELSE IF k = 1 THEN "medium" ELSE "easy")

\* Four correct answers from a new learner and then three incorrect ones:
\* hard after the fourth, easy with wrong_streak 3 after the seventh.
C16_Witness ==
  \E id \in UserIds :
    /\ Len(hist[id]) = 7
    /\ AllCorrect(id, 1, 4)
    /\ \A j \in 5..7 : ~hist[id][j].correct
    /\ hist[id][4].after.difficulty = "hard"
    /\ hist[id][4].after.correct_streak = 4
    /\ users[id].difficulty = "easy" /\ users[id].wrong_streak = 3

\* C17: every step of an answer call for learner L on a question of topic T,
\* in any interleaving with the calls of another learner, leaves every other
\* learner's row, L's active topic and every weight other than that of
\* (L, T) as they are, and adds or removes no row of users or topic_stats.
C17_AnswerConfined ==
  [][\A p \in Procs :
       (Answered(p) /\ pc'[p] # pc[p]) =>
         /\ DOMAIN users' = DOMAIN users
         /\ DOMAIN topic_stats' = DOMAIN topic_stats
         /\ \A o \in DOMAIN users \ {loc[p].user_id} : users'[o] = users[o]
         /\ users'[loc[p].user_id].active_topic = users[loc[p].user_id].active_topic
         /\ \A k \in DOMAIN topic_stats \ {<<loc[p].user_id, loc[p].topic>>} :
              topic_stats'[k] = topic_stats[k]]_vars

\* Learner 2, whose active topic is Mixed, has answered on topic B and the
\* weight of (2, B) is written, while a call of learner 1 that has written
\* its streaks is still running; learner 2's weight for A is still 1.0.
C17_Witness ==
  \E p \in Procs : \E o \in Procs \ {p} :
    /\ Answered(p) /\ loc[p].user_id = 2 /\ loc[p].topic = "B"
    /\ eff[p].weight = 1
    /\ users[2].active_topic = "Mixed"
    /\ topic_stats[<<2, "B">>] # 10 /\ topic_stats[<<2, "A">>] = 10
    /\ Answered(o) /\ loc[o].user_id = 1 /\ eff[o].streak = 1
    /\ pc[o] \notin {"done", "failed"}

\* C18: for a pool that is not empty, with weights >= 0.1 and a draw r in
\* [0, total), choose_question returns the first entry, in pool order, whose
\* cumulative weight is >= r; there always is one, so the result never comes
\* from the random.choice after the loop.
C18_WalkResult ==
  sel.ran =>
    LET pool == PoolOf(IF sel.topic = "Mixed" THEN QDB.order ELSE <<sel.topic>>,
                       sel.difficulty, sel.weights)
        cum(i) == SumWeights(SubSeq(pool, 1, i))
    IN pool # <<>> =>
         \E i \in 1..Len(pool) :
           /\ cum(i) * DrawSteps >= sel.r
           /\ \A j \in 1..(i - 1) : cum(j) * DrawSteps < sel.r
           /\ sel.result = <<pool[i][1], pool[i][2]>>

\* A Mixed draw landed exactly on the cumulative weight of the first topic's
\* only entry, and that entry was returned rather than the one after it.
C18_Witness ==
  /\ sel.ran /\ sel.topic = "Mixed" /\ sel.difficulty = "easy"
  /\ QDB = Bank1
  /\ sel.r = sel.weights["A"] * DrawSteps
  /\ sel.r > 0
  /\ sel.result[1] = "A"

\* C19: the difficulty an answer call passes to send_question for the next
\* question is the learner's difficulty as stored when the call ends, also
\* when the call itself raised or lowered it.
C19_NextUsesCurrent ==
  \A id \in UserIds : \A i \in 1..Len(hist[id]) :
    hist[id][i].sent = hist[id][i].after.difficulty

\* C20: in every state, for every learner, difficulty d and topic T with a
\* question at d, some draw r in [0, total) makes the Mixed selection at d
\* with the learner's stored weights return a question of T, however often
\* T was answered correctly.
C20_NoTopicExcluded ==
  \A id \in DOMAIN users : \A d \in {"easy", "medium", "hard"} :
    \A T \in Topics :
      QuestionsAt(T, d) # <<>> =>
        \E r \in Draws(PoolOf(QDB.order, d, get_topic_weights(id))) :
          \E c \in choose_question("Mixed", d, get_topic_weights(id), r) :
            c[1] = T

\* A correct answer on topic B has just been clamped: the weight of B stands
\* at the floor 0.1 while the weight of A, listed first, is 1.0 or more.
C20_Witness ==
  \E p \in Procs :
    /\ Answered(p) /\ loc[p].topic = "B" /\ loc[p].correct
    /\ eff[p].weight = 1
    /\ loc[p].w + DeltaCorrect < MinWeight
    /\ topic_stats[<<loc[p].user_id, "B">>] = MinWeight
    /\ topic_stats[<<loc[p].user_id, "A">>] >= InitialWeight

====
